---- MODULE Spec2Model ----
(***************************************************************************)
(* A model of the chip / inference / unchip pipeline of DebrisScan:        *)
(*   app/geoprocessor/utils/object_detection.py                            *)
(*       chip_geo_image, _async_post, batch_inference, unchip_geo_image    *)
(*   app/geoprocessor/tasks.py                                             *)
(*       object_detection (the per-image part, lines 120-159)              *)
(*                                                                         *)
(* numpy arrays are records [shape, data] with data the C-order (row-major)*)
(* flat buffer; Python dicts are insertion-ordered sequences of entries;   *)
(* scores are integers in units of 1/ScoreScale and their float16 images   *)
(* are integers in units of 2^-24; normalized box coordinates are integers *)
(* in units of 1/BoxDen.                                                   *)
(***************************************************************************)
EXTENDS Integers, Sequences, FiniteSets, TLC

VARIABLES
    image,          \* the raster handed to chip_geo_image: [shape, data]
    kernel_size,    \* <<tile_height, tile_width>>
    nodata_value,   \* chip_geo_image's nodata_value argument
    thin_nodata_chips, \* chip_geo_image's thin_nodata_chips argument
    on_disk,        \* TRUE iff on_disk_path # "None"
    chipped,        \* what chip_geo_image returned (or that it raised)
    concurrency,    \* batch_inference's concurrency argument
    conf_threshold, \* the user's confidence threshold, 0..100
    pc,             \* where the per-image job is
    batches,        \* batch_inference's batches: chip indices of each batch
    task,           \* state of each _async_post coroutine
    resp,           \* what the service answered each request
    predictions,    \* batch_inference's predictions dict (insertion-ordered)
    merged,         \* what unchip_geo_image returned
    dataframe       \* what results_dict_to_dataframe returned (or that it raised)

vars == <<image, kernel_size, nodata_value, thin_nodata_chips, on_disk, chipped,
          concurrency, conf_threshold, pc, batches, task, resp, predictions,
          merged, dataframe>>

tilerVars == <<image, kernel_size, nodata_value, thin_nodata_chips, on_disk>>

-----------------------------------------------------------------------------
(* Bounds of the model.                                                    *)

MaxDim == 3          \* raster height and width range over 1..MaxDim
MaxTile == 2         \* tile height and width range over 1..MaxTile
MaxChannels == 2     \* channels range over 1..MaxChannels
MaxChips == 3        \* the pipeline's images have 1..MaxChips chips
MaxConcurrency == 2  \* concurrency ranges over 1..MaxConcurrency
PipeChip == 2        \* the pipeline's CHIP_SIZE, scaled down from (512, 512)

ScoreScale == 100 * 100     \* raw scores are n / ScoreScale
BoxDen == 2 * 5             \* normalized box coordinates are n / BoxDen
Uint8Max == 255             \* np.iinfo(np.uint8).max

-----------------------------------------------------------------------------
(* Arithmetic.                                                             *)

RECURSIVE Pow2(_)
Pow2(k) == IF k = 0 THEN 1 ELSE 2 * Pow2(k - 1)

\* math.ceil(a / b) for a >= 0, b >= 1
CeilDiv(a, b) == (a + b - 1) \div b

\* round-half-to-even of num / den (IEEE 754 default rounding)
RoundHalfEven(num, den) ==
    LET q == num \div den
        r == num % den
    IN  IF 2 * r > den \/ (2 * r = den /\ q % 2 = 1) THEN q + 1 ELSE q

\* np.float16 of the value n / ScoreScale in [0, 1], as a multiple of 2^-24.
\* A normal float16 has 11 significant bits: for 2^-k <= v < 2^(1-k), 1 <= k+1 <= 15,
\* the result is round(v * 2^(10+k)) * 2^-(10+k).
Float16(n) ==
    IF n = 0 THEN 0
    ELSE LET k == CHOOSE j \in 0..14 :
                      /\ n * Pow2(j) >= ScoreScale
                      /\ (j = 0 \/ n * Pow2(j - 1) < ScoreScale)
             mant == RoundHalfEven(n * Pow2(k) * 1024, ScoreScale)
         IN  mant * Pow2(14 - k)

Range(s) == {s[j] : j \in 1..Len(s)}

RECURSIVE Prod(_)
Prod(s) == IF s = <<>> THEN 1 ELSE Head(s) * Prod(Tail(s))

RECURSIVE Concat(_)
Concat(ss) == IF ss = <<>> THEN <<>> ELSE Head(ss) \o Concat(Tail(ss))

\* s[mask] for a boolean mask of the same length (numpy boolean indexing)
Masked(s, mask) ==
    LET F[j \in 0..Len(s)] ==
            IF j = 0 THEN <<>>
            ELSE IF mask[j] THEN Append(F[j - 1], s[j]) ELSE F[j - 1]
    IN  F[Len(s)]

-----------------------------------------------------------------------------
(* Python dict: insertion-ordered entries [key, val, by]; by is the        *)
(* history of who assigned the key (not program state the code reads).     *)

DictKeys(d) == {d[j].key : j \in 1..Len(d)}

DictGet(d, k) == (CHOOSE j \in 1..Len(d) : d[j].key = k)

DictSet(d, k, v, who) ==
    IF k \in DictKeys(d)
    THEN [d EXCEPT ![DictGet(d, k)] =
              [key |-> k, val |-> v, by |-> Append(@.by, who)]]
    ELSE Append(d, [key |-> k, val |-> v, by |-> <<who>>])

\* the dict as a key -> value mapping
DictMap(d) == [k \in DictKeys(d) |-> d[DictGet(d, k)].val]

-----------------------------------------------------------------------------
(* numpy arrays: [shape |-> <<d1, ..., dk>>, data |-> the C-order buffer]. *)
(* Indices are zero-based as in the code; data[f + 1] is the element at    *)
(* flat offset f.                                                          *)

\* the flat C-order offset of the multi-index idx in an array of this shape
FlatIndex(shape, idx) ==
    LET F[j \in 0..Len(shape)] ==
            IF j = 0 THEN 0 ELSE F[j - 1] * shape[j] + idx[j]
    IN  F[Len(shape)]

\* the multi-index of flat offset f in an array of this shape
MultiIndex(shape, f) ==
    [j \in 1..Len(shape) |->
        (f \div Prod(SubSeq(shape, j + 1, Len(shape)))) % shape[j]]

ArrayAt(arr, idx) == arr.data[FlatIndex(arr.shape, idx) + 1]

\* a pad that puts the new rows above and the new columns to the left
NpPad_Before(arr, height_pad, width_pad, value) ==
    LET H == arr.shape[1] + height_pad
        W == arr.shape[2] + width_pad
        C == arr.shape[3]
    IN  [shape |-> <<H, W, C>>,
         data  |-> [f \in 1..(H * W * C) |->
                       LET c == (f - 1) % C
                           x == ((f - 1) \div C) % W
                           y == (f - 1) \div (C * W)
                       IN  IF y >= height_pad /\ x >= width_pad
                           THEN arr.data[((y - height_pad) * arr.shape[2]
                                            + (x - width_pad)) * C + c + 1]
                           ELSE value]]

\* np.pad(image, [(0, height_pad), (0, width_pad), (0, 0)], mode="constant",
\*        constant_values=value) of an (H, W, C) array; pads must be >= 0
NpPad(arr, height_pad, width_pad, value) ==
    LET H == arr.shape[1]
        W == arr.shape[2]
        C == arr.shape[3]
        newshape == <<H + height_pad, W + width_pad, C>>
    IN  [shape |-> newshape,
         data  |-> [f \in 1..Prod(newshape) |->
                       LET m == MultiIndex(newshape, f - 1)
                       IN  IF m[1] < H /\ m[2] < W
                           THEN ArrayAt(arr, m)
                           ELSE value]]

\* ndarray.reshape(shape): the same buffer read under another shape
Reshape(arr, shape) == [shape |-> shape, data |-> arr.data]

\* ndarray.reshape(-1, *rest): the leading dimension is inferred
ReshapeInfer(arr, rest) ==
    [shape |-> <<Len(arr.data) \div Prod(rest)>> \o rest, data |-> arr.data]

\* a tiler that forgets the swap: the buffer is collapsed as it lies
SwapAxes12_Skipped(arr) == arr

\* ndarray.swapaxes(1, 2) of a 5-dimensional array, materialised in C order
SwapAxes12(arr) ==
    LET s == arr.shape
        newshape == <<s[1], s[3], s[2], s[4], s[5]>>
    IN  [shape |-> newshape,
         data  |-> [f \in 1..Prod(newshape) |->
                       LET m == MultiIndex(newshape, f - 1)
                       IN  ArrayAt(arr, <<m[1], m[3], m[2], m[4], m[5]>>)]]

\* arr[i] along the first axis
SubArray(arr, i) ==
    LET rest == Tail(arr.shape)
        n == Prod(rest)
    IN  [shape |-> rest, data |-> SubSeq(arr.data, i * n + 1, (i + 1) * n)]

\* np.delete(arr, idxs, axis=0) for an array
NpDeleteArray(arr, idxs) ==
    LET keep == [i \in 1..arr.shape[1] |-> (i - 1) \notin Range(idxs)]
        rows == [i \in 1..arr.shape[1] |-> SubArray(arr, i - 1).data]
        kept == Masked(rows, keep)
    IN  [shape |-> <<Len(kept)>> \o Tail(arr.shape), data |-> Concat(kept)]

\* a delete that drops as many rows as asked, but from the end
NpDeleteRows_FromEnd(rows, idxs) == SubSeq(rows, 1, Len(rows) - Len(idxs))

\* np.delete(rows, idxs, axis=0) for a sequence of rows
NpDeleteRows(rows, idxs) ==
    Masked(rows, [i \in 1..Len(rows) |-> (i - 1) \notin Range(idxs)])

-----------------------------------------------------------------------------
(* ndv_check and chip_geo_image                                            *)

\* a check that flags a chip whose every sample is 0 or dtype-max, mixed or not
NdvCheck_PerSample(chip) ==
    \A f \in 1..Len(chip.data) : chip.data[f] \in {0, Uint8Max}

\* ndv_check(chip): all samples are dtype-max, or all samples are zero
NdvCheck(chip) ==
    LET max_value == Uint8Max
        maxes == [f \in 1..Len(chip.data) |-> max_value]
        zeros == [f \in 1..Len(chip.data) |-> 0]
    IN  maxes = chip.data \/ zeros = chip.data

\* a tiler that counts int(img / tile) + 1 tiles: one too many when the tile
\* divides the axis
NumTiles_FloorPlusOne(img, tile) == (img \div tile) + 1

\* math.ceil(img / tile): the number of tiles along one axis, for tile # 0.
\* With a negative tile the quotient is <= 0 and its ceiling is -floor(img / -tile).
NumTiles(img, tile) ==
    IF tile > 0 THEN CeilDiv(img, tile) ELSE 0 - (img \div (0 - tile))

\* a pad of tile - img % tile: a whole tile too many when the tile divides
\* the axis
PadOf_Remainder(img, tile) == tile - (img % tile)

\* lines 187-188: the padding one axis needs
PadOf(img, tile) == (tile * NumTiles(img, tile)) - img

\* lines 191-196: the raster padded up to whole tiles
PaddedImage(img, ks, ndv) ==
    NpPad(img, PadOf(img.shape[1], ks[1]), PadOf(img.shape[2], ks[2]), ndv)

\* lines 199-207: reshape to 5-D, swap the two middle axes, collapse
TileArray(padded_image, num_h, tile_height, num_w, tile_width, channels) ==
    ReshapeInfer(
        SwapAxes12(Reshape(padded_image,
            <<num_h, tile_height, num_w, tile_width, channels>>)),
        <<tile_height, tile_width, channels>>)

\* top-left pairs listed lefts outer and tops inner
TopLefts_LeftsOuter(num_height_tiles, tile_height, num_width_tiles, tile_width) ==
    [p \in 1..(num_height_tiles * num_width_tiles) |->
        <<((p - 1) % num_height_tiles) * tile_height,
          ((p - 1) \div num_height_tiles) * tile_width>>]

\* top-left pairs whose tops step by the tile width
TopLefts_WidthStride(num_height_tiles, tile_height, num_width_tiles, tile_width) ==
    [p \in 1..(num_height_tiles * num_width_tiles) |->
        <<((p - 1) \div num_width_tiles) * tile_width,
          ((p - 1) % num_width_tiles) * tile_width>>]

\* lines 227-240: the top-left pairs, tops outer and lefts inner
TopLefts(num_height_tiles, tile_height, num_width_tiles, tile_width) ==
    LET tops  == [y \in 1..num_height_tiles |-> (y - 1) * tile_height]
        lefts == [x \in 1..num_width_tiles |-> (x - 1) * tile_width]
    IN  [p \in 1..(num_height_tiles * num_width_tiles) |->
            <<tops[((p - 1) \div num_width_tiles) + 1],
              lefts[((p - 1) % num_width_tiles) + 1]>>]

\* lines 245-248: the indices of the chips ndv_check flags, ascending
IdxsToDelete(single_index_array) ==
    LET n == single_index_array.shape[1]
    IN  Masked([i \in 1..n |-> i - 1],
               [i \in 1..n |-> NdvCheck(SubArray(single_index_array, i - 1))])

\* chip_geo_image. A tile size of 0 divides by zero at lines 179-180; a
\* negative pad is refused by np.pad; a negative dimension (other than a
\* single -1) is refused by reshape, and a negative tile size that gets past
\* np.pad always hands reshape two of them. In on-disk mode without thinning,
\* line 277 reads idxs_to_delete, which only line 245 binds: NameError. In
\* on-disk mode Image.fromarray (line 272) refuses a chip of shape (h, w, 1).
ChipGeoImage(img, ks, ndv, thin, disk) ==
    LET img_height  == img.shape[1]
        img_width   == img.shape[2]
        channels    == img.shape[3]
        tile_height == ks[1]
        tile_width  == ks[2]
        num_height_tiles == NumTiles(img_height, tile_height)
        num_width_tiles  == NumTiles(img_width, tile_width)
        height_pad  == PadOf(img_height, tile_height)
        width_pad   == PadOf(img_width, tile_width)
        padded_image == PaddedImage(img, ks, ndv)
        all_chips   == TileArray(padded_image, num_height_tiles, tile_height,
                                 num_width_tiles, tile_width, channels)
        meta_dict   == [padded_image_height |-> padded_image.shape[1],
                        padded_image_width  |-> padded_image.shape[2],
                        num_height_chips    |-> num_height_tiles,
                        num_width_chips     |-> num_width_tiles,
                        chip_height         |-> tile_height,
                        chip_width          |-> tile_width,
                        channels            |-> channels]
        all_tl      == TopLefts(num_height_tiles, tile_height,
                                num_width_tiles, tile_width)
        idxs_to_delete == IdxsToDelete(all_chips)
        single_index_array ==
            IF thin THEN NpDeleteArray(all_chips, idxs_to_delete) ELSE all_chips
        tl_array ==
            IF thin THEN NpDeleteRows(all_tl, idxs_to_delete) ELSE all_tl
    IN  IF tile_height = 0 \/ tile_width = 0
        THEN [status |-> "error", error |-> "ZeroDivisionError"]
        ELSE IF height_pad < 0 \/ width_pad < 0
        THEN [status |-> "error", error |-> "ValueError"]
        ELSE IF tile_height < 0 \/ tile_width < 0
        THEN [status |-> "error", error |-> "ValueError"]
        ELSE IF disk /\ single_index_array.shape[1] > 0 /\ channels = 1
        THEN [status |-> "error", error |-> "TypeError"]
        ELSE IF disk /\ ~thin
        THEN [status |-> "error", error |-> "NameError"]
        ELSE IF disk
        THEN [status |-> "ok", mode |-> "disk",
              chip_files |-> [i \in 1..single_index_array.shape[1] |->
                                 SubArray(single_index_array, i - 1)],
              meta_json  |-> [padded_image_height |-> meta_dict.padded_image_height,
                              padded_image_width  |-> meta_dict.padded_image_width,
                              num_height_chips    |-> meta_dict.num_height_chips,
                              num_width_chips     |-> meta_dict.num_width_chips,
                              chip_height         |-> meta_dict.chip_height,
                              chip_width          |-> meta_dict.chip_width,
                              channels            |-> meta_dict.channels,
                              num_thinned         |-> Len(idxs_to_delete),
                              thinned_chips       |-> idxs_to_delete],
              tl_csv     |-> <<<<"y", "x">>>> \o tl_array]
        ELSE [status |-> "ok", mode |-> "memory",
              single_index_array |-> single_index_array,
              tl_array  |-> tl_array,
              meta_dict |-> meta_dict]

-----------------------------------------------------------------------------
(* _async_post and batch_inference                                         *)

\* np.array_split(instances, num_batches), as the chip indices of each batch:
\* the first n % k batches hold n \div k + 1 chips, the others n \div k
ArraySplit(n, k) ==
    [i \in 0..(k - 1) |->
        LET each   == n \div k
            extras == n % k
            start  == i * each + (IF i < extras THEN i ELSE extras)
            size   == each + (IF i < extras THEN 1 ELSE 0)
        IN  [j \in 1..size |-> start + j - 1]]

\* a count of int(n / concurrency) + 1 batches: one too many when the
\* concurrency divides the number of chips
NumBatches_FloorPlusOne(n, conc) == (n \div conc) + 1

\* line 459: math.ceil(len(instances) / concurrency)
NumBatches(n, conc) == CeilDiv(n, conc)

\* line 463: float(conf_threshold / 100), in units of 1 / ScoreScale
ConfThreshFlt(threshold) == threshold * (ScoreScale \div 100)

\* line 394: np.array(cats["detection_scores"], dtype=np.float16)
ScoresNp(cats) ==
    [j \in 1..Len(cats.detection_scores) |-> Float16(cats.detection_scores[j])]

\* a filter that compares with > : a score equal to the threshold is dropped
ScoreMask_Strict(cats, thr) ==
    [j \in 1..Len(cats.detection_scores) |->
        Float16(cats.detection_scores[j]) > Float16(thr)]

\* scores_np >= conf_threshold: numpy compares a float16 array with a Python
\* float in float16, so the threshold is rounded to float16 as well
ScoreMask(cats, thr) ==
    [j \in 1..Len(cats.detection_scores) |-> ScoresNp(cats)[j] >= Float16(thr)]

\* line 395: scores_np[scores_np >= conf_threshold].tolist()
FilteredScores(cats, thr) == Masked(ScoresNp(cats), ScoreMask(cats, thr))

\* lines 404-408: the classes under the mask, .astype("uint8")
FilteredClasses(cats, thr) ==
    LET kept == Masked(cats.detection_classes, ScoreMask(cats, thr))
    IN  [j \in 1..Len(kept) |-> kept[j] % (Uint8Max + 1)]

\* boxes stored as the service returned them, without the mask
FilteredBboxes_Unfiltered(cats, thr) == cats.detection_boxes

\* lines 411-413: the boxes under the mask
FilteredBboxes(cats, thr) == Masked(cats.detection_boxes, ScoreMask(cats, thr))

\* lines 403, 417-419
FormattedPrediction(cats, thr) ==
    [detection_scores  |-> FilteredScores(cats, thr),
     detection_classes |-> FilteredClasses(cats, thr),
     detection_boxes   |-> FilteredBboxes(cats, thr)]

\* line 390: cats = pred["predictions"][0]
Cats(pred) == pred.predictions[1]

\* a request that stores its entry without the len(filtered_scores) > 0 test
AsyncPostResults_Always(results, i, pred, thr) ==
    DictSet(results, i,
            [detection_scores  |-> FilteredScores(pred.predictions[1], thr),
             detection_classes |-> FilteredClasses(pred.predictions[1], thr),
             detection_boxes   |-> FilteredBboxes(pred.predictions[1], thr)], i)

\* a request that stores its entry under its arrival position, not its index
AsyncPostResults_ByArrival(results, i, pred, thr) ==
    IF Len(FilteredScores(pred.predictions[1], thr)) > 0
    THEN DictSet(results, Len(results),
                 [detection_scores  |-> FilteredScores(pred.predictions[1], thr),
                  detection_classes |-> FilteredClasses(pred.predictions[1], thr),
                  detection_boxes   |-> FilteredBboxes(pred.predictions[1], thr)], i)
    ELSE results

\* a request that stores its entry under the index of a pair of batches, so
\* that two batches share a key
AsyncPostResults_SharedKey(results, i, pred, thr) ==
    IF Len(FilteredScores(pred.predictions[1], thr)) > 0
    THEN DictSet(results, i \div 2,
                 [detection_scores  |-> FilteredScores(pred.predictions[1], thr),
                  detection_classes |-> FilteredClasses(pred.predictions[1], thr),
                  detection_boxes   |-> FilteredBboxes(pred.predictions[1], thr)], i)
    ELSE results

\* lines 389-426: what request i does to the results dict with a body that has
\* a "predictions" key
AsyncPostResults(results, i, pred, thr) ==
    IF Len(FilteredScores(Cats(pred), thr)) > 0
    THEN DictSet(results, i, FormattedPrediction(Cats(pred), thr), i)
    ELSE results

\* does _async_post raise on this answer? A network error raises out of
\* session.post (line 384); a body with neither "predictions" nor "error"
\* raises KeyError at pred['error'] (line 429).
AsyncPostRaises(r) == r.kind \in {"network_error", "other_body"}

\* the per-chip raw detections the service may return
DetNone == [detection_scores |-> <<>>, detection_classes |-> <<>>,
            detection_boxes |-> <<>>]
DetThree == [detection_scores  |-> <<1000, 3500, 9000>>,
             detection_classes |-> <<1, 2, 300>>,
             detection_boxes   |-> << <<1, 2, 3, 4>>, <<0, 0, 5, 5>>,
                                      <<5, 5, 10, 10>> >>]
DetNear == [detection_scores  |-> <<4999>>,
            detection_classes |-> <<3>>,
            detection_boxes   |-> << <<2, 2, 8, 8>> >>]
DetLow == [detection_scores  |-> <<2000, 3000>>,
           detection_classes |-> <<4, 5>>,
           detection_boxes   |-> << <<0, 5, 5, 10>>, <<5, 0, 10, 5>> >>]
RawDetections == {DetNone, DetThree, DetNear, DetLow}

\* the user's threshold, on the 0-100 scale
Thresholds == {30, 50}

\* what the service may answer a request for a batch of this many chips:
\* no answer (the request raises), {"error": msg}, a body with neither key,
\* or {"predictions": [one entry per instance]}
Responses(size) ==
    {[kind |-> "network_error"], [kind |-> "error_body"], [kind |-> "other_body"]}
    \cup {[kind |-> "predictions", predictions |-> p] :
             p \in [1..size -> RawDetections]}

NoResponse == [kind |-> "none"]

-----------------------------------------------------------------------------
(* unchip_geo_image                                                        *)

\* a denormalization that rounds to the nearest pixel, as Python's round does
DenormalizeCoordinates_Rounded(bbox, im_height, im_width) ==
    <<RoundHalfEven(bbox[1] * im_height, BoxDen),
      RoundHalfEven(bbox[2] * im_width, BoxDen),
      RoundHalfEven(bbox[3] * im_height, BoxDen),
      RoundHalfEven(bbox[4] * im_width, BoxDen)>>

\* a denormalization that scales rows by the width and columns by the height
DenormalizeCoordinates_Transposed(bbox, im_height, im_width) ==
    <<(bbox[1] * im_width) \div BoxDen,
      (bbox[2] * im_height) \div BoxDen,
      (bbox[3] * im_width) \div BoxDen,
      (bbox[4] * im_height) \div BoxDen>>

\* _denormalize_coordinates: int(v * dim) per coordinate, (ymin, xmin, ymax, xmax)
DenormalizeCoordinates(bbox, im_height, im_width) ==
    <<(bbox[1] * im_height) \div BoxDen,
      (bbox[2] * im_width) \div BoxDen,
      (bbox[3] * im_height) \div BoxDen,
      (bbox[4] * im_width) \div BoxDen>>

\* a translation that adds the column offset to the rows and the row offset
\* to the columns
UnchipBoxes_OffsetsSwapped(i, i_results, toplefts_array, chip_height, chip_width) ==
    [b \in 1..Len(i_results.detection_boxes) |->
        <<toplefts_array[i + 1][2]
              + ((i_results.detection_boxes[b][1] * chip_height) \div BoxDen),
          toplefts_array[i + 1][1]
              + ((i_results.detection_boxes[b][2] * chip_width) \div BoxDen),
          toplefts_array[i + 1][2]
              + ((i_results.detection_boxes[b][3] * chip_height) \div BoxDen),
          toplefts_array[i + 1][1]
              + ((i_results.detection_boxes[b][4] * chip_width) \div BoxDen)>>]

\* lines 328-339: the boxes of one entry, translated by the chip's top-left
UnchipBoxes(i, i_results, toplefts_array, chip_height, chip_width) ==
    LET y_offset == toplefts_array[i + 1][1]
        x_offset == toplefts_array[i + 1][2]
    IN  [b \in 1..Len(i_results.detection_boxes) |->
            LET bbox == DenormalizeCoordinates(i_results.detection_boxes[b],
                                               chip_height, chip_width)
            IN  <<y_offset + bbox[1], x_offset + bbox[2],
                  y_offset + bbox[3], x_offset + bbox[4]>>]

\* an untiler whose three lists start again at every entry: only the last
\* entry's detections are returned
UnchipGeoImage_LastOnly(inference_results_dict, toplefts_array, chip_height, chip_width) ==
    IF inference_results_dict = <<>>
    THEN [bboxes |-> <<>>, scores |-> <<>>, classes |-> <<>>]
    ELSE LET last == inference_results_dict[Len(inference_results_dict)]
         IN  [bboxes  |-> UnchipBoxes(last.key, last.val, toplefts_array,
                                      chip_height, chip_width),
              scores  |-> last.val.detection_scores,
              classes |-> last.val.detection_classes]

\* an untiler that walks range(len(toplefts_array)) and reads the map at
\* every chip index: KeyError at an index the map does not hold
UnchipGeoImage_Dense(inference_results_dict, toplefts_array, chip_height, chip_width) ==
    LET d == inference_results_dict
        n == Len(toplefts_array)
        at(i) == d[DictGet(d, i)].val
    IN  IF \E i \in 0..(n - 1) : i \notin DictKeys(d)
        THEN [status |-> "error", error |-> "KeyError"]
        ELSE [bboxes  |-> Concat([i \in 1..n |->
                             UnchipBoxes(i - 1, at(i - 1), toplefts_array,
                                         chip_height, chip_width)]),
              scores  |-> Concat([i \in 1..n |-> at(i - 1).detection_scores]),
              classes |-> Concat([i \in 1..n |-> at(i - 1).detection_classes])]

\* unchip_geo_image: the entries are visited in the dict's iteration order,
\* which for a Python dict is insertion order
UnchipGeoImage(inference_results_dict, toplefts_array, chip_height, chip_width) ==
    LET d == inference_results_dict
    IN  [bboxes  |-> Concat([j \in 1..Len(d) |->
                        UnchipBoxes(d[j].key, d[j].val, toplefts_array,
                                    chip_height, chip_width)]),
         scores  |-> Concat([j \in 1..Len(d) |-> d[j].val.detection_scores]),
         classes |-> Concat([j \in 1..Len(d) |-> d[j].val.detection_classes])]

-----------------------------------------------------------------------------
(* results_dict_to_dataframe                                               *)

\* np.array(results["bboxes"], dtype=np.uint8) of Python ints: a coordinate
\* above 255 is kept modulo 256 by NumPy 1.x and refused (OverflowError) by
\* NumPy 2; the source does not pin the version, so both are outcomes
Uint8Array(bboxes) ==
    [k \in 1..Len(bboxes) |->
        [c \in 1..4 |-> bboxes[k][c] % (Uint8Max + 1)]]

Uint8Overflows(bboxes) ==
    \E k \in 1..Len(bboxes) : \E c \in 1..4 : bboxes[k][c] > Uint8Max

\* lines 652-680: the columns of the DataFrame, as the outcomes the call may
\* have. With no box at all bbox_array has one axis and bbox_array[:, 0]
\* raises IndexError.
ResultsDictToDataframe(results) ==
    LET bbox_array == Uint8Array(results.bboxes)
        frame == [status   |-> "ok",
                  class_id |-> results.classes,
                  score    |-> results.scores,
                  ymin     |-> [k \in 1..Len(bbox_array) |-> bbox_array[k][1]],
                  xmin     |-> [k \in 1..Len(bbox_array) |-> bbox_array[k][2]],
                  ymax     |-> [k \in 1..Len(bbox_array) |-> bbox_array[k][3]],
                  xmax     |-> [k \in 1..Len(bbox_array) |-> bbox_array[k][4]]]
    IN  IF Len(results.bboxes) = 0
        THEN {[status |-> "error", error |-> "IndexError"]}
        ELSE IF Uint8Overflows(results.bboxes)
        THEN {frame, [status |-> "error", error |-> "OverflowError"]}
        ELSE {frame}

-----------------------------------------------------------------------------
(* Inputs                                                                  *)

\* the rasters: uint8 samples, all zero, all dtype-max, all different from
\* both (a ramp of 1..254), or zero but for the first sample
Patterns == {"zeros", "maxes", "ramp", "dot"}

ImageOf(shape, pattern) ==
    [shape |-> shape,
     data  |-> [f \in 1..Prod(shape) |->
                   CASE pattern = "zeros" -> 0
                     [] pattern = "maxes" -> Uint8Max
                     [] pattern = "ramp"  -> ((f - 1) % (Uint8Max - 1)) + 1
                     [] pattern = "dot"   -> IF f = 1 THEN 1 ELSE 0]]

TilerImages ==
    {ImageOf(<<H, W, C>>, p) :
        H \in 1..MaxDim, W \in 1..MaxDim, C \in 1..MaxChannels, p \in Patterns}

\* the pipeline's rasters: a row of k full chips, or a column of k chips whose
\* last chip is one row short
PipelineImages ==
    {ImageOf(<<PipeChip, PipeChip * k, 1>>, "ramp") : k \in 1..MaxChips}
    \cup {ImageOf(<<(PipeChip * k) - 1, PipeChip, 1>>, "ramp") : k \in 2..MaxChips}

NotChipped == [status |-> "none"]
NoMerged == [status |-> "none"]
NoDataframe == [status |-> "none"]

-----------------------------------------------------------------------------
(* The per-image job of object_detection (tasks.py lines 120-159)          *)

Init ==
    /\ image \in PipelineImages
    /\ kernel_size = <<PipeChip, PipeChip>>
    /\ nodata_value = 0
    /\ thin_nodata_chips = FALSE
    /\ on_disk = FALSE
    /\ chipped = NotChipped
    /\ concurrency \in 1..MaxConcurrency
    /\ conf_threshold \in Thresholds
    /\ pc = "start"
    /\ batches = <<>>
    /\ task = <<>>
    /\ resp = <<>>
    /\ predictions = <<>>
    /\ merged = NoMerged
    /\ dataframe = NoDataframe

\* a tiler that takes a tile size below 1 for 1
ChipStep_ClampedTile ==
    /\ pc = "start"
    /\ chipped' = ChipGeoImage(image,
                               <<IF kernel_size[1] < 1 THEN 1 ELSE kernel_size[1],
                                 IF kernel_size[2] < 1 THEN 1 ELSE kernel_size[2]>>,
                               nodata_value, thin_nodata_chips, on_disk)
    /\ pc' = IF chipped'.status = "ok" THEN "chipped" ELSE "error"
    /\ UNCHANGED <<dataframe, tilerVars, concurrency, conf_threshold, batches, task, resp,
                   predictions, merged>>

\* tasks.py lines 127-129: chip_geo_image(image_array, CHIP_SIZE)
ChipStep ==
    /\ pc = "start"
    /\ chipped' = ChipGeoImage(image, kernel_size, nodata_value,
                               thin_nodata_chips, on_disk)
    /\ pc' = IF chipped'.status = "ok" THEN "chipped" ELSE "error"
    /\ UNCHANGED <<dataframe, tilerVars, concurrency, conf_threshold, batches, task, resp,
                   predictions, merged>>

\* batch_inference lines 459-474, up to the first suspension: the batches are
\* split, predictions = {}, and gather starts one _async_post per batch, each
\* of which runs to its await of session.post. With no chip at all
\* num_batches is 0 and np.array_split (line 461) raises ValueError, before
\* any request; chip_geo_image without thinning returns at least one chip.
BatchInferenceStart ==
    /\ pc = "chipped"
    /\ chipped.mode = "memory"
    /\ LET n == chipped.single_index_array.shape[1]
       IN  IF n = 0
           THEN /\ pc' = "raised"
                /\ UNCHANGED <<batches, task, resp, predictions>>
           ELSE /\ batches' = ArraySplit(n, NumBatches(n, concurrency))
                /\ task' = [i \in DOMAIN batches' |-> "posted"]
                /\ resp' = [i \in DOMAIN batches' |-> NoResponse]
                /\ predictions' = <<>>
                /\ pc' = "gather"
    /\ UNCHANGED <<dataframe, tilerVars, chipped, concurrency, conf_threshold, merged>>

\* _async_post lines 384-429, from the answer of request i to its end; an
\* exception leaves gather at once and batch_inference raises it (gather is
\* called without return_exceptions, and nothing catches)
AsyncPost(i, r) ==
    /\ pc = "gather"
    /\ task[i] = "posted"
    /\ resp' = [resp EXCEPT ![i] = r]
    /\ IF AsyncPostRaises(r)
       THEN /\ task' = [task EXCEPT ![i] = "raised"]
            /\ pc' = "raised"
            /\ UNCHANGED predictions
       ELSE /\ task' = [task EXCEPT ![i] = "done"]
            /\ predictions' =
                   IF r.kind = "predictions"
                   THEN AsyncPostResults(predictions, i, r,
                                         ConfThreshFlt(conf_threshold))
                   ELSE predictions
            /\ UNCHANGED pc
    /\ UNCHANGED <<dataframe, tilerVars, chipped, concurrency, conf_threshold, batches,
                   merged>>

\* batch_inference line 476: every coroutine ended, return predictions
GatherReturn ==
    /\ pc = "gather"
    /\ \A i \in DOMAIN task : task[i] = "done"
    /\ pc' = "returned"
    /\ UNCHANGED <<dataframe, tilerVars, chipped, concurrency, conf_threshold, batches,
                   task, resp, predictions, merged>>

\* tasks.py lines 153-159: unchip_geo_image(i_basename, predictions, tl_array,
\* meta_dict["chip_height"], meta_dict["chip_width"])
UnchipStep ==
    /\ pc = "returned"
    /\ merged' = UnchipGeoImage(predictions, chipped.tl_array,
                                chipped.meta_dict.chip_height,
                                chipped.meta_dict.chip_width)
    /\ pc' = "unchipped"
    /\ UNCHANGED <<dataframe, tilerVars, chipped, concurrency, conf_threshold, batches,
                   task, resp, predictions>>

\* tasks.py lines 192-194: results_dict_to_dataframe(i_basename,
\* final_results_dict[i_basename], label_map_dict)
ReportStep ==
    /\ pc = "unchipped"
    /\ dataframe' \in ResultsDictToDataframe(merged)
    /\ pc' = IF dataframe'.status = "ok" THEN "reported" ELSE "error"
    /\ UNCHANGED <<tilerVars, chipped, concurrency, conf_threshold, batches,
                   task, resp, predictions, merged>>

Next ==
    \/ ChipStep
    \/ BatchInferenceStart
    \/ \E i \in DOMAIN task : \E r \in Responses(Len(batches[i])) : AsyncPost(i, r)
    \/ GatherReturn
    \/ UnchipStep

Spec == Init /\ [][Next]_vars

-----------------------------------------------------------------------------
(* chip_geo_image on its own, over every raster and kernel of the bounds    *)

InitTiler ==
    /\ image \in TilerImages
    /\ kernel_size \in (1..MaxTile) \X (1..MaxTile)
    /\ nodata_value \in {0, Uint8Max}
    /\ thin_nodata_chips \in BOOLEAN
    /\ on_disk \in BOOLEAN
    /\ chipped = NotChipped
    /\ concurrency = 1
    /\ conf_threshold = 0
    /\ pc = "start"
    /\ batches = <<>>
    /\ task = <<>>
    /\ resp = <<>>
    /\ predictions = <<>>
    /\ merged = NoMerged
    /\ dataframe = NoDataframe

NextTiler == ChipStep

SpecTiler == InitTiler /\ [][NextTiler]_vars

-----------------------------------------------------------------------------
(* unchip_geo_image on its own, over every detection map of the bounds     *)

\* the largest number of chip rows and chip columns, and of map entries
MaxGrid == 2
MaxEntries == 2

\* the chip sizes: taller than wide, wider than tall
UntileKernels == {<<3, 2>>, <<2, 3>>}

\* a raster of num_h x num_w chips whose last chip row is one row short
UntileImage(ks, num_h, num_w) ==
    ImageOf(<<(ks[1] * num_h) - 1, ks[2] * num_w, 1>>, "ramp")

\* the entries a map may hold: what _async_post formats from a response,
\* an entry with zero detections included
UntileEntries == {FormattedPrediction(d, 0) : d \in RawDetections}

\* the detection maps over the chips 0..n-1: at most MaxEntries entries with
\* distinct keys, in any insertion order
DetectionMaps(n) ==
    {d \in UNION {[1..k -> [key : 0..(n - 1), val : UntileEntries]] :
                     k \in 0..MaxEntries} :
        \A a, b \in 1..Len(d) : a # b => d[a].key # d[b].key}

InitUntile ==
    /\ kernel_size \in UntileKernels
    /\ \E num_h \in 1..MaxGrid : \E num_w \in 1..MaxGrid :
           image = UntileImage(kernel_size, num_h, num_w)
    /\ nodata_value = 0
    /\ thin_nodata_chips = FALSE
    /\ on_disk = FALSE
    /\ chipped = ChipGeoImage(image, kernel_size, nodata_value, FALSE, FALSE)
    /\ concurrency = 1
    /\ conf_threshold = 0
    /\ pc = "returned"
    /\ batches = <<>>
    /\ task = <<>>
    /\ resp = <<>>
    /\ predictions \in DetectionMaps(Len(chipped.tl_array))
    /\ merged = NoMerged
    /\ dataframe = NoDataframe

NextUntile == UnchipStep

SpecUntile == InitUntile /\ [][NextUntile]_vars

-----------------------------------------------------------------------------
(* chip_geo_image with a tile size that is not positive                     *)

\* the smallest tile size tried
MinTile == 0 - MaxTile

\* the tile sizes with a component that is zero or negative
BadKernels ==
    {ks \in (MinTile..MaxTile) \X (MinTile..MaxTile) : ks[1] <= 0 \/ ks[2] <= 0}

InitBadTile ==
    /\ \E H \in 1..MaxDim : \E W \in 1..MaxDim : \E C \in 1..MaxChannels :
           image = ImageOf(<<H, W, C>>, "ramp")
    /\ kernel_size \in BadKernels
    /\ nodata_value = 0
    /\ thin_nodata_chips \in BOOLEAN
    /\ on_disk \in BOOLEAN
    /\ chipped = NotChipped
    /\ concurrency = 1
    /\ conf_threshold = 0
    /\ pc = "start"
    /\ batches = <<>>
    /\ task = <<>>
    /\ resp = <<>>
    /\ predictions = <<>>
    /\ merged = NoMerged
    /\ dataframe = NoDataframe

NextBadTile == ChipStep

SpecBadTile == InitBadTile /\ [][NextBadTile]_vars

-----------------------------------------------------------------------------
(* The per-image job with blank-chip filtering switched on                  *)

\* a row of k chips of one channel: the chips of the set blank are all zero,
\* the others hold no zero and no 255
RowImage(k, blank) ==
    [shape |-> <<PipeChip, PipeChip * k, 1>>,
     data  |-> [f \in 1..(PipeChip * PipeChip * k) |->
                   IF (((f - 1) % (PipeChip * k)) \div PipeChip) \in blank
                   THEN 0
                   ELSE ((f - 1) % 254) + 1]]

ThinImages ==
    {RowImage(k, blank) : k \in 1..MaxChips, blank \in SUBSET (0..(MaxChips - 1))}

InitThin ==
    /\ image \in ThinImages
    /\ kernel_size = <<PipeChip, PipeChip>>
    /\ nodata_value = 0
    /\ thin_nodata_chips = TRUE
    /\ on_disk = FALSE
    /\ chipped = NotChipped
    /\ concurrency \in 1..MaxConcurrency
    /\ conf_threshold \in Thresholds
    /\ pc = "start"
    /\ batches = <<>>
    /\ task = <<>>
    /\ resp = <<>>
    /\ predictions = <<>>
    /\ merged = NoMerged
    /\ dataframe = NoDataframe

SpecThin == InitThin /\ [][Next]_vars

-----------------------------------------------------------------------------
(* results_dict_to_dataframe on its own, over merged results of full-size   *)
(* chips                                                                    *)

\* api_config.py line 19: CHIP_SIZE = (512, 512)
ChipSize == 512

\* the most detections of a merged result
MaxRows == 2

\* chip-local pixel boxes of a full-size chip
LocalBoxes == {<<0, 0, 255, 255>>, <<51, 102, 153, 204>>, <<256, 256, 512, 512>>}

\* merged boxes: a local box translated by the top-left of a chip of the
\* first two rows and columns of the grid
MergedBoxes ==
    {<<b[1] + y, b[2] + x, b[3] + y, b[4] + x>> :
        b \in LocalBoxes, y \in {0, ChipSize}, x \in {0, ChipSize}}

\* merged results of n detections
MergedResults(n) ==
    {[bboxes  |-> bb,
      scores  |-> [k \in 1..n |-> Float16(9000)],
      classes |-> [k \in 1..n |-> k]] : bb \in [1..n -> MergedBoxes]}

\* the raster and the map behind a merged result are not represented: only
\* merged is read by results_dict_to_dataframe
InitReport ==
    /\ image = ImageOf(<<1, 1, 1>>, "ramp")
    /\ kernel_size = <<ChipSize, ChipSize>>
    /\ nodata_value = 0
    /\ thin_nodata_chips = FALSE
    /\ on_disk = FALSE
    /\ chipped = NotChipped
    /\ concurrency = 1
    /\ conf_threshold = 0
    /\ pc = "unchipped"
    /\ batches = <<>>
    /\ task = <<>>
    /\ resp = <<>>
    /\ predictions = <<>>
    /\ \E n \in 0..MaxRows : merged \in MergedResults(n)
    /\ dataframe = NoDataframe

NextReport == ReportStep

SpecReport == InitReport /\ [][NextReport]_vars

-----------------------------------------------------------------------------
(* Vocabulary of the properties                                            *)

Requests == DOMAIN task

Answered(i) == i \in Requests /\ resp[i].kind = "predictions"

\* the raw score n / ScoreScale is at or above the threshold T / 100
AtOrAbove(n, T) == n * 100 >= T * ScoreScale

\* the positions of a chip's raw detections with a raw score at or above T / 100
ExactMask(cats, T) ==
    [j \in 1..Len(cats.detection_scores) |-> AtOrAbove(cats.detection_scores[j], T)]

\* the positions whose score, reduced to float16, is at or above the
\* threshold T / 100 reduced to float16
ReducedMask(cats, T) ==
    [j \in 1..Len(cats.detection_scores) |->
        Float16(cats.detection_scores[j]) >= Float16(T * (ScoreScale \div 100))]

\* the raw detections the service returned for the chip of linear index c,
\* when the batch holding it was answered with predictions
ChipAnswered(c) ==
    \E i \in Requests : \E j \in 1..Len(batches[i]) :
        batches[i][j] = c /\ resp[i].kind = "predictions"

RawOfChip(c) ==
    LET i == CHOOSE i \in Requests : \E j \in 1..Len(batches[i]) : batches[i][j] = c
        j == CHOOSE j \in 1..Len(batches[i]) : batches[i][j] = c
    IN  resp[i].predictions[j]

\* the entries of a dict in ascending key order
AscendingByKey(d) ==
    IF d = <<>> THEN <<>>
    ELSE LET maxkey == CHOOSE m \in DictKeys(d) : \A k \in DictKeys(d) : k <= m
             ks == [k \in 1..(maxkey + 1) |-> k - 1]
             present == Masked(ks, [k \in 1..Len(ks) |-> ks[k] \in DictKeys(d)])
         IN  [j \in 1..Len(present) |-> d[DictGet(d, present[j])]]

-----------------------------------------------------------------------------
(* Properties of the dispatcher (specification Spec)                       *)

\* C1: if the request of one batch raises (a network error inside
\* _async_post), batch_inference does not raise, and the map it returns has
\* the entries of the other batches and no entry for the failed batch.
C1_PartialFailureTolerance ==
    /\ (\E i \in Requests : resp[i].kind = "network_error") => pc # "raised"
    /\ pc = "returned" =>
          \A i \in Requests :
              resp[i].kind = "network_error" => i \notin DictKeys(predictions)

\* C2: a response body without a "predictions" key, {"error": msg} or any
\* other shape, is treated as no predictions for the batch: the request does
\* not raise and writes nothing to the result map.
C2_NoPredictionsKeyTolerated ==
    \A i \in Requests :
        resp[i].kind \in {"error_body", "other_body"} =>
            /\ task[i] = "done"
            /\ pc # "raised"
            /\ i \notin DictKeys(predictions)

\* C3: every key k of the detection map is the zero-based linear index of the
\* chip whose detections are stored under k, for every concurrency >= 1.
C3_KeysAreChipIndices ==
    \A j \in 1..Len(predictions) :
        LET k == predictions[j].key
        IN  /\ ChipAnswered(k)
            /\ predictions[j].val =
                   FormattedPrediction(RawOfChip(k), ConfThreshFlt(conf_threshold))

\* C4: in the pipeline (concurrency = 1), for every completion order of the
\* requests, the merged boxes, scores and classes are the concatenation of the
\* per-chip detections in ascending chip-index order.
C4_MergedInAscendingChipOrder ==
    (pc = "unchipped" /\ concurrency = 1) =>
        merged = UnchipGeoImage(AscendingByKey(predictions), chipped.tl_array,
                                chipped.meta_dict.chip_height,
                                chipped.meta_dict.chip_width)

\* C5: for every concurrency >= 1, every chip of a successfully answered batch
\* that has at least one raw score at or above the threshold has an entry in
\* the returned detection map.
C5_EveryQualifyingChipHasEntry ==
    pc = "returned" =>
        \A i \in Requests : \A j \in 1..Len(batches[i]) :
            (/\ resp[i].kind = "predictions"
             /\ \E p \in 1..Len(resp[i].predictions[j].detection_scores) :
                    AtOrAbove(resp[i].predictions[j].detection_scores[p],
                              conf_threshold))
            => batches[i][j] \in DictKeys(predictions)

MapOfResponses ==
    LET thr == ConfThreshFlt(conf_threshold)
        keys == {i \in Requests :
                    Answered(i) /\ \E p \in 1..Len(Cats(resp[i]).detection_scores) :
                        ReducedMask(Cats(resp[i]), conf_threshold)[p]}
    IN  [i \in keys |-> FormattedPrediction(Cats(resp[i]), thr)]

\* C8: for fixed chips and fixed service responses, the detection map that
\* batch_inference returns, as a key -> value mapping, is the same for every
\* completion order of the requests: it is a function of the responses.
C8_ArrivalOrderIndependence ==
    pc = "returned" => DictMap(predictions) = MapOfResponses

\* C8 witness: the map was returned after two requests stored their entries
\* in the opposite order of their indices.
C8_Witness ==
    /\ pc = "returned"
    /\ Len(predictions) >= 2
    /\ predictions[1].key > predictions[2].key

\* C9: during one batch_inference call every key of the predictions dict is
\* assigned by one request coroutine only and only once, and that coroutine is
\* the one whose index is the key: no write overwrites another batch's entry.
C9_NoContendedWrite ==
    \A j \in 1..Len(predictions) :
        /\ Len(predictions[j].by) = 1
        /\ predictions[j].by[1] \in Requests
        /\ \A m \in 1..Len(predictions) : m # j =>
               /\ predictions[m].key # predictions[j].key
               /\ predictions[m].by[1] # predictions[j].by[1]

\* C9 witness: every request of a call with at least two batches has written.
C9_Witness ==
    /\ pc = "gather"
    /\ Cardinality(Requests) >= 2
    /\ Len(predictions) = Cardinality(Requests)

-----------------------------------------------------------------------------
(* Properties of the tiler (specification SpecTiler)                       *)

\* the least q with q * tile >= dim
CeilOf(dim, tile) == CHOOSE q \in 0..dim : q * tile >= dim /\ (q - 1) * tile < dim

\* C10: for every raster of shape (H, W, C) and tile size (h, w), all >= 1,
\* chip_geo_image without blank filtering (in memory) returns exactly
\* ceil(H/h) * ceil(W/w) chips and as many TopLefts, and every chip has shape
\* exactly (h, w, C).
C10_ChipCountAndShape ==
    (pc = "chipped" /\ ~thin_nodata_chips) =>
        LET n == CeilOf(image.shape[1], kernel_size[1])
                    * CeilOf(image.shape[2], kernel_size[2])
            arr == chipped.single_index_array
        IN  /\ arr.shape[1] = n
            /\ Len(chipped.tl_array) = n
            /\ Tail(arr.shape) = <<kernel_size[1], kernel_size[2], image.shape[3]>>
            /\ Len(arr.data) = n * kernel_size[1] * kernel_size[2] * image.shape[3]
            /\ \A i \in 0..(n - 1) :
                   /\ SubArray(arr, i).shape =
                          <<kernel_size[1], kernel_size[2], image.shape[3]>>
                   /\ Len(SubArray(arr, i).data) =
                          kernel_size[1] * kernel_size[2] * image.shape[3]

\* C10 witness: a raster that needs padding on both axes was cut into more
\* than one chip.
C10_Witness ==
    /\ pc = "chipped"
    /\ ~thin_nodata_chips
    /\ image.shape[1] % kernel_size[1] # 0
    /\ image.shape[2] % kernel_size[2] # 0
    /\ chipped.single_index_array.shape[1] > 1

\* chip_geo_image returned its chips in memory, none removed
ChippedInMemory == pc = "chipped" /\ ~on_disk /\ ~thin_nodata_chips

\* the metadata chip_geo_image recorded, in memory or in the JSON file
MetaOf(c) == IF c.mode = "memory" THEN c.meta_dict ELSE c.meta_json

\* C11: for every chip index i of the full grid, with row_tile = i div num_w
\* and col_tile = i mod num_w, chip i equals the slice
\* padded[row_tile*h : (row_tile+1)*h, col_tile*w : (col_tile+1)*w, :] of the
\* padded raster: the reshape/swapaxes/reshape equals nested-loop slicing.
C11_ChipsAreSlices ==
    ChippedInMemory =>
        LET arr    == chipped.single_index_array
            padded == PaddedImage(image, kernel_size, nodata_value)
            h      == kernel_size[1]
            w      == kernel_size[2]
            num_w  == chipped.meta_dict.num_width_chips
            num_h  == chipped.meta_dict.num_height_chips
        IN  \A i \in 0..(num_h * num_w - 1) :
                LET row_tile == i \div num_w
                    col_tile == i % num_w
                IN  \A y \in 0..(h - 1) : \A x \in 0..(w - 1) :
                    \A ch \in 0..(image.shape[3] - 1) :
                        ArrayAt(arr, <<i, y, x, ch>>) =
                            ArrayAt(padded, <<row_tile * h + y, col_tile * w + x, ch>>)

\* C11 witness: a raster of distinct samples and two channels was cut into a
\* grid of two rows and two columns of chips of more than one sample each.
C11_Witness ==
    /\ ChippedInMemory
    /\ image = ImageOf(image.shape, "ramp")
    /\ image.shape[3] = 2
    /\ kernel_size[1] * kernel_size[2] > 1
    /\ chipped.meta_dict.num_height_chips >= 2
    /\ chipped.meta_dict.num_width_chips >= 2

\* C12: TopLeft[i] = ((i div num_w) * h, (i mod num_w) * w) for every chip
\* index i of the full grid: non-negative multiples of the tile size, and the
\* position in the padded raster of sample (0, 0) of chip i.
C12_TopLeftOrdering ==
    ChippedInMemory =>
        LET arr    == chipped.single_index_array
            padded == PaddedImage(image, kernel_size, nodata_value)
            h      == kernel_size[1]
            w      == kernel_size[2]
            num_w  == chipped.meta_dict.num_width_chips
            num_h  == chipped.meta_dict.num_height_chips
        IN  /\ Len(chipped.tl_array) = num_h * num_w
            /\ \A i \in 0..(num_h * num_w - 1) :
                   LET tl == chipped.tl_array[i + 1]
                   IN  /\ tl = <<(i \div num_w) * h, (i % num_w) * w>>
                       /\ tl[1] >= 0 /\ tl[1] % h = 0
                       /\ tl[2] >= 0 /\ tl[2] % w = 0
                       /\ \A ch \in 0..(image.shape[3] - 1) :
                              ArrayAt(arr, <<i, 0, 0, ch>>) =
                                  ArrayAt(padded, <<tl[1], tl[2], ch>>)

\* C12 witness: a grid with more columns than rows, and more than one row,
\* was cut from a raster of distinct samples with a non-square tile.
C12_Witness ==
    /\ ChippedInMemory
    /\ image = ImageOf(image.shape, "ramp")
    /\ kernel_size[1] # kernel_size[2]
    /\ chipped.meta_dict.num_height_chips >= 2
    /\ chipped.meta_dict.num_width_chips > chipped.meta_dict.num_height_chips

\* the rectangle of padded-raster positions a top-left pair stands for
RectOf(tl, h, w) == {<<tl[1] + y, tl[2] + x>> : y \in 0..(h - 1), x \in 0..(w - 1)}

\* C13: the rectangles [top, top+h) x [left, left+w) of the full grid's
\* TopLefts are pairwise disjoint and their union is exactly the padded
\* raster [0, padded_height) x [0, padded_width).
C13_TilesPartitionPadded ==
    ChippedInMemory =>
        LET tls  == chipped.tl_array
            meta == chipped.meta_dict
            rect(p) == RectOf(tls[p], meta.chip_height, meta.chip_width)
        IN  /\ \A p, q \in 1..Len(tls) : p # q => rect(p) \cap rect(q) = {}
            /\ UNION {rect(p) : p \in 1..Len(tls)} =
                   (0..(meta.padded_image_height - 1))
                       \X (0..(meta.padded_image_width - 1))

\* C13 witness: a padded raster was cut into at least two rows and two columns
\* of tiles that are taller than wide.
C13_Witness ==
    /\ ChippedInMemory
    /\ kernel_size[1] > kernel_size[2]
    /\ chipped.meta_dict.num_height_chips >= 2
    /\ chipped.meta_dict.num_width_chips >= 2
    /\ image.shape[1] % kernel_size[1] # 0

\* C14: padding is added at the bottom and the right only: the padded raster
\* equals the raster at every position (r, c) with r < H and c < W, every
\* other sample of it equals nodata_value, and chip_geo_image leaves the
\* input raster as it was.
C14_PaddingBottomRightOnly ==
    /\ [](pc = "chipped" =>
            LET padded == PaddedImage(image, kernel_size, nodata_value)
                meta   == MetaOf(chipped)
            IN  /\ padded.shape = <<meta.padded_image_height,
                                    meta.padded_image_width, image.shape[3]>>
                /\ \A r \in 0..(padded.shape[1] - 1) :
                   \A c \in 0..(padded.shape[2] - 1) :
                   \A ch \in 0..(padded.shape[3] - 1) :
                       ArrayAt(padded, <<r, c, ch>>) =
                           IF r < image.shape[1] /\ c < image.shape[2]
                           THEN ArrayAt(image, <<r, c, ch>>)
                           ELSE nodata_value)
    /\ [][image' = image]_vars

\* C14 witness: a raster without a sample of value 255 was padded with 255 on
\* both axes.
C14_Witness ==
    /\ pc = "chipped"
    /\ nodata_value = Uint8Max
    /\ image = ImageOf(image.shape, "ramp")
    /\ PadOf(image.shape[1], kernel_size[1]) > 0
    /\ PadOf(image.shape[2], kernel_size[2]) > 0

\* C15: padded_height = tile_height * ceil(H / tile_height) and padded_width
\* = tile_width * ceil(W / tile_width); both are >= the original dimensions
\* and are the values recorded in the metadata; when H and W are divisible by
\* the tile size no padding is added and the chip count is (H/h) * (W/w).
C15_PaddedDimensions ==
    pc = "chipped" =>
        LET meta == MetaOf(chipped)
            H == image.shape[1]
            W == image.shape[2]
            h == kernel_size[1]
            w == kernel_size[2]
        IN  /\ meta.padded_image_height = h * CeilOf(H, h)
            /\ meta.padded_image_width = w * CeilOf(W, w)
            /\ meta.padded_image_height >= H
            /\ meta.padded_image_width >= W
            /\ PaddedImage(image, kernel_size, nodata_value).shape =
                   <<meta.padded_image_height, meta.padded_image_width, image.shape[3]>>
            /\ (H % h = 0 /\ W % w = 0) =>
                   /\ meta.padded_image_height = H
                   /\ meta.padded_image_width = W
                   /\ meta.num_height_chips * meta.num_width_chips =
                          (H \div h) * (W \div w)
                   /\ ChippedInMemory =>
                          /\ chipped.single_index_array.shape[1] =
                                 (H \div h) * (W \div w)
                          /\ Len(chipped.tl_array) = (H \div h) * (W \div w)

\* C15 witness: a raster whose height and width are whole multiples of a tile
\* of more than one sample was cut, in memory, into more than one chip.
C15_Witness ==
    /\ ChippedInMemory
    /\ kernel_size[1] > 1
    /\ image.shape[1] % kernel_size[1] = 0
    /\ image.shape[2] % kernel_size[2] = 0
    /\ chipped.single_index_array.shape[1] > 1

-----------------------------------------------------------------------------
(* Properties of the untiler (specification SpecUntile)                    *)

\* the number of detections (by this count) in the first j entries of a map
SumBefore(d, j, Cnt(_)) ==
    LET S[k \in 0..j] == IF k = 0 THEN 0 ELSE S[k - 1] + Cnt(d[k].val)
    IN  S[j]

NumBoxes(v) == Len(v.detection_boxes)
NumScores(v) == Len(v.detection_scores)
NumClasses(v) == Len(v.detection_classes)

\* the top-left pair of the chip an entry is keyed by
OffsetOf(entry) == chipped.tl_array[entry.key + 1]

\* the [chip_height, chip_width, chip_height, chip_width] a box is scaled by
DimOf(k) == IF k \in {1, 3} THEN chipped.meta_dict.chip_height
            ELSE chipped.meta_dict.chip_width

\* the merged box of box b of entry j, less the chip's offsets
LocalBox(j, b) ==
    LET out == merged.bboxes[SumBefore(predictions, j - 1, NumBoxes) + b]
        tl  == OffsetOf(predictions[j])
    IN  <<out[1] - tl[1], out[2] - tl[2], out[3] - tl[1], out[4] - tl[2]>>

\* an entry with zero detections
EmptyEntry == [detection_scores |-> <<>>, detection_classes |-> <<>>,
               detection_boxes |-> <<>>]

\* a map with one more entry, inserted after the first pos entries
InsertAt(d, pos, entry) ==
    SubSeq(d, 1, pos) \o <<entry>> \o SubSeq(d, pos + 1, Len(d))

\* a map without its j-th entry
Without(d, j) == SubSeq(d, 1, j - 1) \o SubSeq(d, j + 1, Len(d))

\* C16: for every chip index i present in the detection map and every box of
\* that chip, the output box is the chip-local pixel box plus (row_offset,
\* col_offset, row_offset, col_offset) with (row_offset, col_offset) =
\* TopLeft[i]; the (top, left, bottom, right) order is preserved.
C16_CoordinateTranslation ==
    pc = "unchipped" =>
        \A j \in 1..Len(predictions) :
            \A b \in 1..NumBoxes(predictions[j].val) :
                LET local == DenormalizeCoordinates(
                                 predictions[j].val.detection_boxes[b],
                                 chipped.meta_dict.chip_height,
                                 chipped.meta_dict.chip_width)
                    tl    == OffsetOf(predictions[j])
                IN  merged.bboxes[SumBefore(predictions, j - 1, NumBoxes) + b] =
                        <<local[1] + tl[1], local[2] + tl[2],
                          local[3] + tl[1], local[4] + tl[2]>>

\* C16 witness: the box (0.1, 0.2, 0.3, 0.4) of a chip whose two offsets are
\* non-zero and different was merged after the boxes of another entry.
C16_Witness ==
    /\ pc = "unchipped"
    /\ \E j \in 2..Len(predictions) :
           /\ OffsetOf(predictions[j])[1] > 0
           /\ OffsetOf(predictions[j])[2] > 0
           /\ OffsetOf(predictions[j])[1] # OffsetOf(predictions[j])[2]
           /\ NumBoxes(predictions[j - 1].val) > 0
           /\ \E b \in 1..NumBoxes(predictions[j].val) :
                  predictions[j].val.detection_boxes[b] = <<1, 2, 3, 4>>

\* C17 as stated: every chip-local pixel coordinate the untiler computes is
\* round(v * d), an integer nearest to v * d.
C17_DenormalizationRoundsToNearest ==
    pc = "unchipped" =>
        \A j \in 1..Len(predictions) :
            \A b \in 1..NumBoxes(predictions[j].val) : \A k \in 1..4 :
                LET exact == predictions[j].val.detection_boxes[b][k] * DimOf(k)
                    px    == LocalBox(j, b)[k] * BoxDen
                IN  2 * (px - exact) <= BoxDen /\ 2 * (exact - px) <= BoxDen

\* C17 as amended: every chip-local pixel coordinate the untiler computes is
\* int(v * d), the product truncated toward zero: the largest integer that is
\* at most v * d, never the next one up.
C17_DenormalizationTruncates ==
    pc = "unchipped" =>
        \A j \in 1..Len(predictions) :
            \A b \in 1..NumBoxes(predictions[j].val) : \A k \in 1..4 :
                LET exact == predictions[j].val.detection_boxes[b][k] * DimOf(k)
                    px    == LocalBox(j, b)[k] * BoxDen
                IN  px <= exact /\ exact < px + BoxDen

\* C17 witness: a coordinate whose product v * d has a fractional part above
\* one half was merged.
C17_Witness ==
    /\ pc = "unchipped"
    /\ \E j \in 1..Len(predictions) :
           \E b \in 1..NumBoxes(predictions[j].val) : \E k \in 1..4 :
               2 * ((predictions[j].val.detection_boxes[b][k] * DimOf(k)) % BoxDen)
                   > BoxDen

\* C18: the merged result has exactly as many boxes, scores and classes as
\* the sum over all map entries of their counts, and each detection of each
\* entry stands at its own position of the merged lists: none is dropped,
\* duplicated or merged with another.
C18_EveryDetectionExactlyOnce ==
    pc = "unchipped" =>
        LET d == predictions
        IN  /\ Len(merged.bboxes) = SumBefore(d, Len(d), NumBoxes)
            /\ Len(merged.scores) = SumBefore(d, Len(d), NumScores)
            /\ Len(merged.classes) = SumBefore(d, Len(d), NumClasses)
            /\ \A j \in 1..Len(d) :
                   /\ \A b \in 1..NumScores(d[j].val) :
                          merged.scores[SumBefore(d, j - 1, NumScores) + b] =
                              d[j].val.detection_scores[b]
                   /\ \A b \in 1..NumClasses(d[j].val) :
                          merged.classes[SumBefore(d, j - 1, NumClasses) + b] =
                              d[j].val.detection_classes[b]

\* C18 witness: two entries of more than one detection each, one of them with
\* the same detections as the other, were merged.
C18_Witness ==
    /\ pc = "unchipped"
    /\ Len(predictions) = 2
    /\ NumBoxes(predictions[1].val) >= 2
    /\ predictions[1].val = predictions[2].val
    /\ Len(merged.bboxes) >= 4

\* C19: when every normalized coordinate lies in [0, 1] and the TopLefts come
\* from chip_geo_image with the same chip size, every merged box has
\* 0 <= top, bottom <= padded_height and 0 <= left, right <= padded_width.
C19_MergedInsidePadded ==
    pc = "unchipped" =>
        \A m \in 1..Len(merged.bboxes) :
            LET box == merged.bboxes[m]
            IN  /\ 0 <= box[1] /\ box[1] <= chipped.meta_dict.padded_image_height
                /\ 0 <= box[3] /\ box[3] <= chipped.meta_dict.padded_image_height
                /\ 0 <= box[2] /\ box[2] <= chipped.meta_dict.padded_image_width
                /\ 0 <= box[4] /\ box[4] <= chipped.meta_dict.padded_image_width

\* C19 witness: a box reaching the bottom-right corner of the last chip of a
\* grid of more than one row and column was merged: its bottom is the padded
\* height, below the raster's last row, and its right is the padded width.
C19_Witness ==
    /\ pc = "unchipped"
    /\ chipped.meta_dict.num_height_chips > 1
    /\ chipped.meta_dict.num_width_chips > 1
    /\ chipped.meta_dict.padded_image_height > image.shape[1]
    /\ \E m \in 1..Len(merged.bboxes) :
           /\ merged.bboxes[m][3] = chipped.meta_dict.padded_image_height
           /\ merged.bboxes[m][4] = chipped.meta_dict.padded_image_width

\* C20: untiling a map in which chip index i is missing gives the same merged
\* result as untiling the same map with i present and holding zero
\* detections; untiling does not raise because of an absent index; an empty
\* map yields an entry with empty boxes, scores and classes.
C20_SparseMapEquivalence ==
    pc = "unchipped" =>
        LET d   == predictions
            tls == chipped.tl_array
            h   == chipped.meta_dict.chip_height
            w   == chipped.meta_dict.chip_width
        IN  /\ DOMAIN merged = {"bboxes", "scores", "classes"}
            /\ \A i \in (0..(Len(tls) - 1)) \ DictKeys(d) : \A pos \in 0..Len(d) :
                   UnchipGeoImage(InsertAt(d, pos, [key |-> i, val |-> EmptyEntry]),
                                  tls, h, w) = merged
            /\ \A j \in 1..Len(d) :
                   d[j].val = EmptyEntry =>
                       UnchipGeoImage(Without(d, j), tls, h, w) = merged
            /\ d = <<>> =>
                   merged = [bboxes |-> <<>>, scores |-> <<>>, classes |-> <<>>]

\* C20 witness: a map with an entry of zero detections, an entry with
\* detections, and no entry for some other chip was untiled.
C20_Witness ==
    /\ pc = "unchipped"
    /\ \E j \in 1..Len(predictions) : predictions[j].val = EmptyEntry
    /\ \E j \in 1..Len(predictions) : NumBoxes(predictions[j].val) > 0
    /\ \E i \in 0..(Len(chipped.tl_array) - 1) : i \notin DictKeys(predictions)
    /\ Len(merged.bboxes) > 0

-----------------------------------------------------------------------------
(* Properties of blank-chip filtering and of the on-disk return            *)
(* (specification SpecTiler)                                               *)

\* the top-left pairs of the full grid, row-major (C12)
GridTopLefts(meta) ==
    [p \in 1..(meta.num_height_chips * meta.num_width_chips) |->
        <<((p - 1) \div meta.num_width_chips) * meta.chip_height,
          ((p - 1) % meta.num_width_chips) * meta.chip_width>>]

\* the h x w x C slice of the padded raster that starts at a top-left pair
SliceAt(tl) ==
    LET padded == PaddedImage(image, kernel_size, nodata_value)
        shape  == <<kernel_size[1], kernel_size[2], image.shape[3]>>
    IN  [shape |-> shape,
         data  |-> [f \in 1..Prod(shape) |->
                       LET m == MultiIndex(shape, f - 1)
                       IN  ArrayAt(padded, <<tl[1] + m[1], tl[2] + m[2], m[3]>>)]]

\* every sample of the chip is v
Uniform(chip, v) == \A f \in 1..Len(chip.data) : chip.data[f] = v

\* every sample of the chip is 0 or 255, each sample on its own
EverySampleZeroOrMax(chip) == \A f \in 1..Len(chip.data) : chip.data[f] \in {0, 255}

\* the chips and the top-left pairs chip_geo_image gave back, in memory or on disk
ChipsOf(c) ==
    IF c.mode = "memory"
    THEN [j \in 1..c.single_index_array.shape[1] |->
             SubArray(c.single_index_array, j - 1)]
    ELSE c.chip_files

TopLeftsOf(c) == IF c.mode = "memory" THEN c.tl_array ELSE Tail(c.tl_csv)

\* the zero-based indices of the full grid whose slice this test flags
Flagged(meta, Test(_)) ==
    {p - 1 : p \in {q \in DOMAIN GridTopLefts(meta) : Test(SliceAt(GridTopLefts(meta)[q]))}}

\* the top-left pairs of the full grid whose slice this test does not flag,
\* in grid order
Unflagged(meta, Test(_)) ==
    LET grid == GridTopLefts(meta)
    IN  Masked(grid, [p \in 1..Len(grid) |-> ~Test(SliceAt(grid[p]))])

\* C21: with thin_nodata_chips enabled, the returned chips are exactly the
\* chips of the unfiltered sequence that ndv_check does not flag, in their
\* original relative order, the returned TopLefts are the TopLefts of those
\* same chips in the same order, and the TopLeft at j belongs to the chip at j.
C21_FilterKeepsChipsAndTopLeftsAligned ==
    (pc = "chipped" /\ thin_nodata_chips) =>
        LET chips == ChipsOf(chipped)
            tls   == TopLeftsOf(chipped)
        IN  /\ tls = Unflagged(MetaOf(chipped), NdvCheck)
            /\ Len(chips) = Len(tls)
            /\ \A j \in 1..Len(chips) : chips[j] = SliceAt(tls[j])

\* C21 witness: filtering removed a chip that stood before a chip it kept,
\* and kept more than one chip.
C21_Witness ==
    /\ pc = "chipped"
    /\ thin_nodata_chips
    /\ Len(TopLeftsOf(chipped)) >= 2
    /\ TopLeftsOf(chipped)[1] # <<0, 0>>
    /\ Len(TopLeftsOf(chipped)) < Len(GridTopLefts(MetaOf(chipped)))

\* C22: whenever blank-chip filtering is enabled, in memory or on disk, the
\* metadata chip_geo_image returns or writes records the indices of the
\* removed chips (thinned_chips) and their count (num_thinned).
C22_RemovedIndicesRecorded ==
    (pc = "chipped" /\ thin_nodata_chips) =>
        LET meta == MetaOf(chipped)
        IN  /\ {"num_thinned", "thinned_chips"} \subseteq DOMAIN meta
            /\ Range(meta.thinned_chips) = Flagged(meta, NdvCheck)
            /\ meta.num_thinned = Cardinality(Flagged(meta, NdvCheck))

\* C23 as stated: a chip is flagged blank iff every sample of it equals
\* either 0 or 255.
C23_BlankIffEverySampleZeroOrMax ==
    (pc = "chipped" /\ thin_nodata_chips) =>
        TopLeftsOf(chipped) = Unflagged(MetaOf(chipped), EverySampleZeroOrMax)

\* a chip is all zeros or all 255
AllZeroOrAllMax(chip) == Uniform(chip, 0) \/ Uniform(chip, 255)

\* C23 as amended: a chip is flagged blank iff all of its samples equal 0 or
\* all of its samples equal 255; a chip that mixes the two values, or has a
\* sample of any other value, is not blank.
C23_BlankIffAllZeroOrAllMax ==
    (pc = "chipped" /\ thin_nodata_chips) =>
        /\ TopLeftsOf(chipped) = Unflagged(MetaOf(chipped), AllZeroOrAllMax)
        /\ \A p \in DOMAIN GridTopLefts(MetaOf(chipped)) :
               LET chip == SliceAt(GridTopLefts(MetaOf(chipped))[p])
               IN  NdvCheck(chip) <=> AllZeroOrAllMax(chip)

\* C23 witness: filtering removed a chip and kept a chip that mixes samples of
\* 0 with samples of 255 and holds no other value.
C23_Witness ==
    /\ pc = "chipped"
    /\ thin_nodata_chips
    /\ Len(TopLeftsOf(chipped)) < Len(GridTopLefts(MetaOf(chipped)))
    /\ \E j \in 1..Len(TopLeftsOf(chipped)) :
           LET chip == SliceAt(TopLeftsOf(chipped)[j])
           IN  /\ EverySampleZeroOrMax(chip)
               /\ ~Uniform(chip, 0)
               /\ ~Uniform(chip, 255)

\* C24: for every valid raster and tile size and either setting of blank
\* filtering, chip_geo_image in on-disk mode completes and writes a metadata
\* JSON with the seven grid keys, plus num_thinned and thinned_chips when
\* blank filtering is enabled, and a TopLeft CSV with header y,x and one row
\* per chip.
C24_OnDiskMetadata ==
    (on_disk /\ pc # "start") =>
        /\ pc = "chipped"
        /\ chipped.status = "ok"
        /\ {"padded_image_height", "padded_image_width", "num_height_chips",
            "num_width_chips", "chip_height", "chip_width", "channels"}
               \subseteq DOMAIN chipped.meta_json
        /\ thin_nodata_chips =>
               {"num_thinned", "thinned_chips"} \subseteq DOMAIN chipped.meta_json
        /\ Head(chipped.tl_csv) = <<"y", "x">>
        /\ Len(chipped.tl_csv) = 1 + Len(chipped.chip_files)

-----------------------------------------------------------------------------
(* Property of the tile size (specification SpecBadTile)                   *)

\* C25: for every raster and every tile size (h, w) with h <= 0 or w <= 0,
\* chip_geo_image ends in an error and returns no chips, TopLefts or metadata.
C25_NonPositiveTileIsFatal ==
    ((kernel_size[1] <= 0 \/ kernel_size[2] <= 0) /\ pc # "start") =>
        /\ pc = "error"
        /\ chipped.status = "error"
        /\ DOMAIN chipped = {"status", "error"}

\* C25 witness: a negative tile height that divides the raster's height, next
\* to a positive tile width, ended in an error: no pad was needed, and the
\* reshape refused the negative dimensions.
C25_Witness ==
    /\ pc = "error"
    /\ kernel_size[1] < 0
    /\ kernel_size[2] > 0
    /\ image.shape[1] % (0 - kernel_size[1]) = 0
    /\ chipped.error = "ValueError"

-----------------------------------------------------------------------------
(* More properties of the dispatcher and the pipeline (specification Spec)  *)

\* C26: for every retained detection and every class id the service returned,
\* ids of 256 and above included, the class id stored in the detection map
\* equals the returned class id.
C26_StoredClassIdsLossless ==
    \A j \in 1..Len(predictions) :
        LET cats == Cats(resp[predictions[j].key])
        IN  predictions[j].val.detection_classes =
                Masked(cats.detection_classes, ReducedMask(cats, conf_threshold))

\* the positions of the service's detections that the filter keeps, ascending
KeptPositions(cats, T) ==
    Masked([p \in 1..Len(cats.detection_scores) |-> p], ReducedMask(cats, T))

\* C29: when the service returns equally long score, class and box lists per
\* chip, every entry of the detection map and the merged result have boxes,
\* scores and classes of equal length, and position k of each of the three
\* sequences refers to the same service detection, after filtering and after
\* merging across chips.
C29_ParallelSequencesAligned ==
    /\ \A j \in 1..Len(predictions) :
           LET v    == predictions[j].val
               cats == Cats(resp[predictions[j].key])
               kept == KeptPositions(cats, conf_threshold)
           IN  /\ Len(v.detection_boxes) = Len(kept)
               /\ Len(v.detection_scores) = Len(kept)
               /\ Len(v.detection_classes) = Len(kept)
               /\ \A k \in 1..Len(kept) :
                      /\ v.detection_boxes[k] = cats.detection_boxes[kept[k]]
                      /\ v.detection_scores[k] = Float16(cats.detection_scores[kept[k]])
                      /\ v.detection_classes[k] = cats.detection_classes[kept[k]] % 256
    /\ pc = "unchipped" =>
           /\ Len(merged.bboxes) = Len(merged.scores)
           /\ Len(merged.scores) = Len(merged.classes)
           /\ \A j \in 1..Len(predictions) :
                  LET v      == predictions[j].val
                      before == SumBefore(predictions, j - 1, NumBoxes)
                      tl     == OffsetOf(predictions[j])
                  IN  \A k \in 1..NumBoxes(v) :
                          /\ merged.scores[before + k] = v.detection_scores[k]
                          /\ merged.classes[before + k] = v.detection_classes[k]
                          /\ merged.bboxes[before + k] =
                                 LET px == DenormalizeCoordinates(
                                               v.detection_boxes[k],
                                               chipped.meta_dict.chip_height,
                                               chipped.meta_dict.chip_width)
                                 IN  <<px[1] + tl[1], px[2] + tl[2],
                                       px[3] + tl[1], px[4] + tl[2]>>

\* C29 witness: two entries were merged, one of them filtered down from three
\* service detections to two, its first detection dropped.
C29_Witness ==
    /\ pc = "unchipped"
    /\ Len(predictions) >= 2
    /\ \E j \in 1..Len(predictions) :
           /\ Cats(resp[predictions[j].key]) = DetThree
           /\ KeptPositions(DetThree, conf_threshold) = <<2, 3>>

-----------------------------------------------------------------------------
(* Properties of the job with blank-chip filtering (specification SpecThin) *)

\* batch_inference was called
Dispatched == pc \in {"gather", "raised", "returned", "unchipped"}

\* the number of chips handed to batch_inference
NumChips == chipped.single_index_array.shape[1]

\* batch_inference raised before any request was issued
RaisedAtSplit == pc = "raised" /\ DOMAIN task = {}

\* the batches are count contiguous runs that follow each other from chip 0
\* to chip n - 1, none empty and none longer than b, with one request each
SplitInto(count, n, b) ==
    /\ DOMAIN batches = 0..(count - 1)
    /\ DOMAIN task = DOMAIN batches
    /\ \A i \in DOMAIN batches :
           /\ Len(batches[i]) >= 1
           /\ Len(batches[i]) <= b
           /\ \A j \in 1..(Len(batches[i]) - 1) :
                  batches[i][j + 1] = batches[i][j] + 1
           /\ batches[i][1] = IF i = 0 THEN 0
                              ELSE batches[i - 1][Len(batches[i - 1])] + 1
    /\ count >= 1 => batches[count - 1][Len(batches[count - 1])] = n - 1

SurvivorsOf(full) ==
    LET n == full.single_index_array.shape[1]
    IN  Masked([p \in 1..n |-> p - 1],
               [p \in 1..n |-> ~NdvCheck(SubArray(full.single_index_array, p - 1))])

\* C30: tile -> infer -> untile with blank-chip filtering enabled (the map
\* keyed by position in the filtered chip sequence, untiled with the filtered
\* TopLefts) gives every detection of a surviving chip the same absolute box
\* as the pipeline without filtering gives for that chip. Stated for the
\* pipeline's concurrency of 1, where a key is a chip position.
C30_FilteringKeepsCoordinates ==
    (pc = "unchipped" /\ concurrency = 1) =>
        LET full == ChipGeoImage(image, kernel_size, nodata_value, FALSE, FALSE)
            orig == SurvivorsOf(full)
        IN  \A j \in 1..Len(predictions) :
                LET k == predictions[j].key
                    v == predictions[j].val
                    before == SumBefore(predictions, j - 1, NumBoxes)
                IN  /\ batches[k] = <<k>>
                    /\ SubArray(chipped.single_index_array, k) =
                           SubArray(full.single_index_array, orig[k + 1])
                    /\ \A b \in 1..NumBoxes(v) :
                           merged.bboxes[before + b] =
                               UnchipBoxes(orig[k + 1], v, full.tl_array,
                                           full.meta_dict.chip_height,
                                           full.meta_dict.chip_width)[b]

\* C30 witness: a detection of a chip that stands later in the full grid than
\* in the filtered sequence was merged, after a detection of another chip.
C30_Witness ==
    /\ pc = "unchipped"
    /\ concurrency = 1
    /\ Len(merged.bboxes) >= 2
    /\ \E j \in 2..Len(predictions) :
           chipped.tl_array[predictions[j].key + 1] #
               <<0, predictions[j].key * PipeChip>>

-----------------------------------------------------------------------------
(* Property of the report (specification SpecReport)                       *)

\* C28: for every merged detection, the ymin, xmin, ymax, xmax columns that
\* results_dict_to_dataframe produces equal the four components of that
\* detection's merged bbox, for every coordinate value up to the padded image
\* size, values above 255 included.
C28_ReportCarriesMergedCoordinates ==
    (pc \in {"reported", "error"} /\ Len(merged.bboxes) > 0) =>
        /\ dataframe.status = "ok"
        /\ \A k \in 1..Len(merged.bboxes) :
               /\ dataframe.ymin[k] = merged.bboxes[k][1]
               /\ dataframe.xmin[k] = merged.bboxes[k][2]
               /\ dataframe.ymax[k] = merged.bboxes[k][3]
               /\ dataframe.xmax[k] = merged.bboxes[k][4]

====
